---- MODULE Spec2Model ----
(***************************************************************************)
(* Model of src/src/main.rs: a command-line utility that creates one TAP   *)
(* device with a name, an MTU and a MAC address (parsed from --mac or      *)
(* randomly generated), reports it, and holds it until Ctrl+C.             *)
(*                                                                         *)
(* Text is modelled as a sequence of one-character strings, so that        *)
(* splitting, hex parsing and hex formatting are computed character by     *)
(* character as the code computes them.                                    *)
(***************************************************************************)
EXTENDS Integers, Sequences, FiniteSets, TLC

VARIABLES
    argv,       \* the process arguments (never modified)
    pc,         \* position of main()
    macResult,  \* result of the value parser parse_mac_address, if it ran
    cli,        \* the parsed Cli struct
    draw,       \* the six bytes returned by rand::random()
    node_mac,   \* the resolved MAC address
    builder,    \* the DeviceBuilder configuration handed to build_async()
    buildCalls, \* number of calls of build_async()
    device,     \* "none", "live" or "released"
    releases,   \* number of times the device handle was dropped
    inspect,    \* outcome of the `ip addr show dev` command
    sigint,     \* TRUE once the interrupt signal was delivered
    exitCode,   \* process exit status, NoExit while running
    exitAt,     \* the step that ended the process
    log         \* the log lines written so far

vars == <<argv, pc, macResult, cli, draw, node_mac, builder, buildCalls,
          device, releases, inspect, sigint, exitCode, exitAt, log>>

----------------------------------------------------------------------------
(* Program constants                                                       *)

DEFAULT_TAP_NAME == "tap0"
DEFAULT_MTU == 1500
MacLen == 6
Radix == 16
U8Max == 255

(* Bounds of the model                                                     *)

MaxParts == 6     \* largest number of groups in a generated --mac string
MaxOdd == 2       \* most groups of a generated string that leave the base form

----------------------------------------------------------------------------
(* Characters and hexadecimal digits                                       *)

LowerHex == <<"0","1","2","3","4","5","6","7","8","9","a","b","c","d","e","f">>
UpperHex == <<"0","1","2","3","4","5","6","7","8","9","A","B","C","D","E","F">>

IsSeparator(c) == c = ":" \/ c = "-"

\* char::to_digit(16): the digit value of c, or -1 when c is no hex digit.
ToDigit(c) ==
    IF \E i \in 1..Radix : LowerHex[i] = c
    THEN (CHOOSE i \in 1..Radix : LowerHex[i] = c) - 1
    ELSE IF \E i \in 1..Radix : UpperHex[i] = c
    THEN (CHOOSE i \in 1..Radix : UpperHex[i] = c) - 1
    ELSE -1

\* format!("{:02x}", b): two lowercase hex digits.
HexByte(b) == <<LowerHex[(b \div Radix) + 1], LowerHex[(b % Radix) + 1]>>

RECURSIVE Join(_, _)
\* .collect::<Vec<_>>().join(sep)
Join(parts, sep) ==
    IF parts = <<>> THEN <<>>
    ELSE IF Len(parts) = 1 THEN parts[1]
    ELSE parts[1] \o <<sep>> \o Join(Tail(parts), sep)

\* mac.iter().map(|b| format!("{:02x}", b)).collect().join(":")
mac_str(mac) == Join([i \in 1..Len(mac) |-> HexByte(mac[i])], ":")

----------------------------------------------------------------------------
(* generate_random_mac                                                     *)

\* mac[0] |= 0x02
SetLocalBit(b) == IF (b \div 2) % 2 = 1 THEN b ELSE b + 2
\* a mask that clears nothing
ClearMulticastBit_Noop(b) == b

\* mac[0] &= 0xfe
ClearMulticastBit(b) == b - (b % 2)

generate_random_mac(random) ==
    [random EXCEPT ![1] = ClearMulticastBit(SetLocalBit(random[1]))]

----------------------------------------------------------------------------
(* parse_mac_address                                                       *)

RECURSIVE SplitFrom(_, _, _, _)
\* s.split(|c| c == ':' || c == '-'): the pieces between separators, empty
\* pieces included, so n separators give n + 1 parts.
SplitFrom(s, i, cur, parts) ==
    IF i > Len(s) THEN Append(parts, cur)
    ELSE IF IsSeparator(s[i]) THEN SplitFrom(s, i + 1, <<>>, Append(parts, cur))
    ELSE SplitFrom(s, i + 1, Append(cur, s[i]), parts)

Split(s) == SplitFrom(s, 1, <<>>, <<>>)

OkByte(v) == [ok |-> TRUE, val |-> v, cause |-> "none"]
ErrByte(c) == [ok |-> FALSE, val |-> 0, cause |-> c]

RECURSIVE RadixLoop(_, _, _)
\* the checked digit loop of u8::from_str_radix
RadixLoop(digits, i, result) ==
    IF i > Len(digits) THEN OkByte(result)
    ELSE LET x == ToDigit(digits[i]) IN
         IF x < 0 THEN ErrByte("InvalidDigit")
         ELSE IF result * Radix > U8Max THEN ErrByte("PosOverflow")
         ELSE IF result * Radix + x > U8Max THEN ErrByte("PosOverflow")
         ELSE RadixLoop(digits, i + 1, result * Radix + x)

\* a parser that insists on exactly two digits
from_str_radix_TwoDigits(src) ==
    IF Len(src) # 2 THEN ErrByte("InvalidDigit") ELSE RadixLoop(src, 1, 0)

\* u8::from_str_radix(part, 16): empty input and a lone sign are errors, one
\* leading '+' is accepted.
from_str_radix(src) ==
    IF src = <<>> THEN ErrByte("Empty")
    ELSE IF Len(src) = 1 /\ (src[1] = "+" \/ src[1] = "-")
    THEN ErrByte("InvalidDigit")
    ELSE RadixLoop(IF src[1] = "+" THEN Tail(src) ELSE src, 1, 0)

OkMac(m) == [ok |-> TRUE, val |-> m, err |-> "none", part |-> <<>>, cause |-> "none"]
ErrFormat == [ok |-> FALSE, val |-> <<>>, err |-> "InvalidFormat", part |-> <<>>, cause |-> "none"]
ErrHexPart(p, c) == [ok |-> FALSE, val |-> <<>>, err |-> "InvalidHexPart", part |-> p, cause |-> c]
NotParsed == [ok |-> FALSE, val |-> <<>>, err |-> "NotCalled", part |-> <<>>, cause |-> "none"]

\* a loop that stores group i at the mirrored index
RECURSIVE ParseParts_Mirrored(_, _, _)
ParseParts_Mirrored(parts, i, mac) ==
    IF i > Len(parts) THEN OkMac(mac)
    ELSE LET r == from_str_radix(parts[i]) IN
         IF ~r.ok THEN ErrHexPart(parts[i], r.cause)
         ELSE ParseParts_Mirrored(parts, i + 1,
                                  [mac EXCEPT ![Len(parts) + 1 - i] = r.val])

\* a loop that reports the last group that fails instead of the first
ParseParts_LastError(parts, i, mac) ==
    LET bad == { j \in i..Len(parts) : ~from_str_radix(parts[j]).ok } IN
    IF bad = {}
    THEN OkMac([j \in 1..Len(parts) |->
                 IF j < i THEN mac[j] ELSE from_str_radix(parts[j]).val])
    ELSE LET j == CHOOSE x \in bad : \A y \in bad : y <= x IN
         ErrHexPart(parts[j], from_str_radix(parts[j]).cause)

RECURSIVE ParseParts(_, _, _)
\* for (i, part) in parts.iter().enumerate() { mac[i] = from_str_radix(..)? }
ParseParts(parts, i, mac) ==
    IF i > Len(parts) THEN OkMac(mac)
    ELSE LET r == from_str_radix(parts[i]) IN
         IF ~r.ok THEN ErrHexPart(parts[i], r.cause)
         ELSE ParseParts(parts, i + 1, [mac EXCEPT ![i] = r.val])

\* a count check that lets short inputs through
CountOk_AtMost(parts) == Len(parts) <= MacLen

CountOk(parts) == Len(parts) = MacLen

parse_mac_address(s) ==
    LET parts == Split(s) IN
    IF ~CountOk(parts) THEN ErrFormat
    ELSE ParseParts(parts, 1, [i \in 1..MacLen |-> 0])

----------------------------------------------------------------------------
(* The command lines the model runs the program on                         *)

\* The groups of the documented example 0a:0b:0c:0d:0e:0f, continued.
BaseTokens ==
    << <<"0","a">>, <<"0","b">>, <<"0","c">>, <<"0","d">>, <<"0","e">>,
       <<"0","f">>, <<"1","0">>, <<"1","1">>, <<"1","2">> >>

BaseToken(i) == BaseTokens[((i - 1) % Len(BaseTokens)) + 1]

\* Groups put in place of a base group: another two-digit group, and groups
\* that leave the two-lowercase-digit form: empty, one digit, three digits
\* with a leading zero, upper case, above 0xff, non-hex.
OddTokens ==
    { <<"f","f">>, <<>>, <<"a">>, <<"0","0","a">>, <<"F","E">>,
      <<"1","0","0">>, <<"g","0">> }

SepStyles == {"colon", "hyphen", "mixed"}

SepAt(style, j) ==
    IF style = "colon" THEN ":"
    ELSE IF style = "hyphen" THEN "-"
    ELSE IF j % 2 = 1 THEN ":" ELSE "-"

RECURSIVE BuildArg(_, _, _)
BuildArg(tokens, style, j) ==
    IF j > Len(tokens) THEN <<>>
    ELSE IF j = Len(tokens) THEN tokens[j]
    ELSE tokens[j] \o <<SepAt(style, j)>> \o BuildArg(tokens, style, j + 1)

RECURSIVE TokenRows(_, _)
\* Rows of k groups of which at most n leave the base form.
TokenRows(k, n) ==
    IF k = 0 THEN { <<>> }
    ELSE { Append(r, BaseToken(k)) : r \in TokenRows(k - 1, n) }
         \cup (IF n = 0 THEN {}
               ELSE { Append(r[1], r[2]) :
                        r \in TokenRows(k - 1, n - 1) \X OddTokens })

\* a:b:c:d:e:f, the one-digit example
OneDigitArg == <<"a",":","b",":","c",":","d",":","e",":","f">>
\* the documented example 0a:0b:0c:0d:0e:0f
ExampleArg == BuildArg([i \in 1..MacLen |-> BaseToken(i)], "colon", 1)
\* ff-ff-ff-ff-ff-ff, the broadcast address
BroadcastArg == BuildArg([i \in 1..MacLen |-> <<"f","f">>], "hyphen", 1)
\* groups with a leading '+'
SignedArg == BuildArg([i \in 1..MacLen |-> <<"+">> \o BaseToken(i)], "colon", 1)
\* seven groups, the last one empty (a trailing separator), one of them non-hex
TrailingArg == BuildArg([i \in 1..(MacLen + 1) |->
                  IF i = MacLen + 1 THEN <<>>
                  ELSE IF i = 2 THEN <<"g","0">> ELSE BaseToken(i)], "colon", 1)

ExtraArgs == { OneDigitArg, ExampleArg, BroadcastArg, SignedArg, TrailingArg }

MacArgs ==
    { BuildArg(r[1], r[2], 1) :
        r \in (UNION { TokenRows(k, MaxOdd) : k \in 1..MaxParts }) \X SepStyles }
    \cup ExtraArgs

Some(v) == [some |-> TRUE, val |-> v]
None == [some |-> FALSE, val |-> <<>>]

\* --help and --version; runs with the default name and MTU, without --mac
\* and with each --mac string; runs with --name eth-test --mtu 1400, without
\* --mac and with the extra --mac strings
Argvs ==
    { [kind |-> k, name |-> DEFAULT_TAP_NAME, mtu |-> DEFAULT_MTU, mac |-> None] :
        k \in {"help", "version"} }
    \cup { [kind |-> "run", name |-> DEFAULT_TAP_NAME, mtu |-> DEFAULT_MTU, mac |-> m] :
             m \in {None} \cup { Some(a) : a \in MacArgs } }
    \cup { [kind |-> "run", name |-> "eth-test", mtu |-> 1400, mac |-> m] :
             m \in {None} \cup { Some(a) : a \in ExtraArgs } }

\* The draws of rand::random() the model follows: every first byte, with a
\* few tails.
RandomTails == { <<0, 0, 0, 0, 0>>, <<255, 255, 255, 255, 255>>, <<1, 35, 69, 103, 137>> }
RandomDraws == { <<b>> \o t : <<b, t>> \in (0..U8Max) \X RandomTails }

----------------------------------------------------------------------------
(* State                                                                   *)

NoExit == -1
NoCli == [name |-> "", mtu |-> 0, mac |-> None]
NoBuilder == [name |-> "", mtu |-> 0, mac |-> <<>>, layer |-> "none"]
Line(level, msg, arg) == [level |-> level, msg |-> msg, arg |-> arg]

Init ==
    /\ argv \in Argvs
    /\ pc = "start"
    /\ macResult = NotParsed
    /\ cli = NoCli
    /\ draw = <<>>
    /\ node_mac = <<>>
    /\ builder = NoBuilder
    /\ buildCalls = 0
    /\ device = "none"
    /\ releases = 0
    /\ inspect = "none"
    /\ sigint = FALSE
    /\ exitCode = NoExit
    /\ exitAt = "none"
    /\ log = <<>>

\* an exit that runs no destructor
Terminate_NoDrop(code, at) ==
    /\ pc' = "exited"
    /\ exitCode' = code
    /\ exitAt' = at
    /\ UNCHANGED <<device, releases>>

\* an exit that always reports success
Terminate_Ok(code, at) ==
    /\ pc' = "exited"
    /\ exitCode' = 0
    /\ exitAt' = at
    /\ device' = IF device = "live" THEN "released" ELSE device
    /\ releases' = IF device = "live" THEN releases + 1 ELSE releases

\* The process ends with `code` at step `at`; a live device handle goes out of
\* scope and is dropped.
Terminate(code, at) ==
    /\ pc' = "exited"
    /\ exitCode' = code
    /\ exitAt' = at
    /\ device' = IF device = "live" THEN "released" ELSE device
    /\ releases' = IF device = "live" THEN releases + 1 ELSE releases

----------------------------------------------------------------------------
(* Steps of main                                                           *)

\* Cli::parse(): --help and --version print and exit 0; a --mac value is run
\* through parse_mac_address and its error ends the process with status 2.
CliParse ==
    /\ pc = "start"
    /\ IF argv.kind # "run"
       THEN /\ Terminate(0, "cli_display")
            /\ UNCHANGED <<macResult, cli>>
       ELSE IF ~argv.mac.some
       THEN /\ cli' = [name |-> argv.name, mtu |-> argv.mtu, mac |-> None]
            /\ pc' = "resolve"
            /\ UNCHANGED <<macResult, exitCode, exitAt, device, releases>>
       ELSE LET r == parse_mac_address(argv.mac.val) IN
            /\ macResult' = r
            /\ IF r.ok
               THEN /\ cli' = [name |-> argv.name, mtu |-> argv.mtu, mac |-> Some(r.val)]
                    /\ pc' = "resolve"
                    /\ UNCHANGED <<exitCode, exitAt, device, releases>>
               ELSE /\ Terminate(2, "cli_error")
                    /\ UNCHANGED cli
    /\ UNCHANGED <<argv, draw, node_mac, builder, buildCalls, inspect, sigint, log>>

\* what a mutant of the Some(mac) arm would do: adjust the bits of a user MAC
UserMac_Adjusted(mac) == generate_random_mac(mac)

\* Some(mac) arm of the match
UserMac(mac) == mac

ResolveUserMac ==
    /\ pc = "resolve"
    /\ cli.mac.some
    /\ node_mac' = UserMac(cli.mac.val)
    /\ log' = Append(log, Line("info", "user_mac", mac_str(cli.mac.val)))
    /\ pc' = "configure"
    /\ UNCHANGED <<argv, macResult, cli, draw, builder, buildCalls, device,
                   releases, inspect, sigint, exitCode, exitAt>>

\* None arm of the match
ResolveRandomMac ==
    /\ pc = "resolve"
    /\ ~cli.mac.some
    /\ \E random \in RandomDraws :
         LET mac == generate_random_mac(random) IN
         /\ draw' = random
         /\ node_mac' = mac
         /\ log' = Append(log, Line("warn", "random_mac", mac_str(mac)))
    /\ pc' = "configure"
    /\ UNCHANGED <<argv, macResult, cli, builder, buildCalls, device,
                   releases, inspect, sigint, exitCode, exitAt>>

\* DeviceBuilder::new().name(..).mac_addr(..).layer(Layer::L2).mtu(..)
NewBuilder(name, mac, mtu) == [name |-> name, mtu |-> mtu, mac |-> mac, layer |-> "L2"]

ConfigureBuilder ==
    /\ pc = "configure"
    /\ log' = log \o << Line("info", "creating", <<>>),
                        Line("info", "name", cli.name),
                        Line("info", "mtu", cli.mtu) >>
    /\ builder' = NewBuilder(cli.name, node_mac, cli.mtu)
    /\ pc' = "build"
    /\ UNCHANGED <<argv, macResult, cli, draw, node_mac, buildCalls, device,
                   releases, inspect, sigint, exitCode, exitAt>>

\* builder.build_async().context(..)?: the library creates the interface or
\* reports an error, and an error is returned from main.
BuildDevice ==
    /\ pc = "build"
    /\ buildCalls' = buildCalls + 1
    /\ \/ /\ device' = "live"
          /\ pc' = "created"
          /\ UNCHANGED <<releases, exitCode, exitAt>>
       \/ Terminate(1, "build_async")
    /\ UNCHANGED <<argv, macResult, cli, draw, node_mac, builder, inspect,
                   sigint, log>>

\* info!("TAP设备 '{}' 创建成功!", device.name()?)
LogCreated ==
    /\ pc = "created"
    /\ \/ /\ log' = Append(log, Line("info", "created", builder.name))
          /\ pc' = "report"
          /\ UNCHANGED <<device, releases, exitCode, exitAt>>
       \/ /\ Terminate(1, "device_name")
          /\ UNCHANGED log
    /\ UNCHANGED <<argv, macResult, cli, draw, node_mac, builder, buildCalls,
                   inspect, sigint>>

InspectOutcomes == {"success", "nonzero", "spawn_failed"}

\* show_device_info: Err when the command cannot be run, Ok otherwise.
show_device_info(outcome) == outcome # "spawn_failed"

\* the lines show_device_info writes
InspectLines(outcome) ==
    << Line("info", "inspect_begin", builder.name) >>
    \o (IF outcome = "success" THEN << Line("print", "stdout", <<>>) >>
        ELSE IF outcome = "nonzero" THEN << Line("warn", "inspect_failed", builder.name) >>
        ELSE <<>>)
    \o (IF outcome = "spawn_failed" THEN <<>>
        ELSE << Line("info", "inspect_end", <<>>) >>)

\* show_device_info(&device.name()?)?
ShowDeviceInfo ==
    /\ pc = "report"
    /\ \/ /\ Terminate(1, "device_name")
          /\ UNCHANGED <<inspect, log>>
       \/ \E outcome \in InspectOutcomes :
            /\ inspect' = outcome
            /\ log' = log \o InspectLines(outcome)
            /\ IF show_device_info(outcome)
               THEN /\ pc' = "reported"
                    /\ UNCHANGED <<device, releases, exitCode, exitAt>>
               ELSE Terminate(1, "show_device_info")
    /\ UNCHANGED <<argv, macResult, cli, draw, node_mac, builder, buildCalls,
                   sigint>>

\* info!("设备已启动，按 Ctrl+C 退出。") and the start of ctrl_c().await
Announce ==
    /\ pc = "reported"
    /\ log' = Append(log, Line("info", "running", <<>>))
    /\ pc' = "wait"
    /\ UNCHANGED <<argv, macResult, cli, draw, node_mac, builder, buildCalls,
                   device, releases, inspect, sigint, exitCode, exitAt>>

\* The operating system delivers the interrupt signal to the waiting process.
Interrupt ==
    /\ pc = "wait"
    /\ ~sigint
    /\ sigint' = TRUE
    /\ UNCHANGED <<argv, pc, macResult, cli, draw, node_mac, builder,
                   buildCalls, device, releases, inspect, exitCode, exitAt, log>>

\* a wait that may also end by itself
WaitOver_Timeout == TRUE

\* ctrl_c().await completes only once the signal has arrived.
WaitOver == sigint

\* tokio::signal::ctrl_c().await? returns Ok
CtrlCReturns ==
    /\ pc = "wait"
    /\ WaitOver
    /\ log' = Append(log, Line("info", "signal_received", <<>>))
    /\ pc' = "shutdown"
    /\ UNCHANGED <<argv, macResult, cli, draw, node_mac, builder, buildCalls,
                   device, releases, inspect, sigint, exitCode, exitAt>>

\* tokio::signal::ctrl_c().await? returns Err
CtrlCFails ==
    /\ pc = "wait"
    /\ ~sigint
    /\ Terminate(1, "ctrl_c")
    /\ UNCHANGED <<argv, macResult, cli, draw, node_mac, builder, buildCalls,
                   inspect, sigint, log>>

\* Ok(()) at the end of main
ReturnOk ==
    /\ pc = "shutdown"
    /\ Terminate(0, "return")
    /\ UNCHANGED <<argv, macResult, cli, draw, node_mac, builder, buildCalls,
                   inspect, sigint, log>>

\* the steps main takes by itself
MainStep ==
    \/ CliParse
    \/ ResolveUserMac
    \/ ResolveRandomMac
    \/ ConfigureBuilder
    \/ BuildDevice
    \/ LogCreated
    \/ ShowDeviceInfo
    \/ Announce
    \/ CtrlCReturns
    \/ ReturnOk

Next ==
    \/ CliParse
    \/ ResolveUserMac
    \/ ResolveRandomMac
    \/ ConfigureBuilder
    \/ BuildDevice
    \/ LogCreated
    \/ ShowDeviceInfo
    \/ Announce
    \/ Interrupt
    \/ CtrlCReturns
    \/ CtrlCFails
    \/ ReturnOk

Spec == Init /\ [][Next]_vars

\* The command lines followed when whole behaviours are checked: --help,
\* --version, the runs without --mac, and runs with an accepted and with a
\* refused --mac.
FairArgvs ==
    { a \in Argvs :
        a.mac.some => a.mac.val \in ExtraArgs \cup { <<>>, BaseToken(1) \o <<":">> } }

FairInit == Init /\ argv \in FairArgvs

\* main runs on one thread that is always scheduled, and the runtime resumes
\* it once the signal has been delivered.
FairSpec == FairInit /\ [][Next]_vars /\ WF_vars(MainStep)

----------------------------------------------------------------------------
(* Vocabulary of the properties, stated on the text itself and not through *)
(* the parser                                                              *)

LowerHexChars == {"0","1","2","3","4","5","6","7","8","9","a","b","c","d","e","f"}
HexChars == LowerHexChars \cup {"A","B","C","D","E","F"}

SeparatorsOf(s) == { i \in 1..Len(s) : s[i] = ":" \/ s[i] = "-" }
NumGroups(s) == Cardinality(SeparatorsOf(s)) + 1

\* the j-th group of s: the text between the (j-1)-th and the j-th separator
GroupOf(s, j) ==
    LET P == SeparatorsOf(s) \cup {0, Len(s) + 1}
        Nth(n) == CHOOSE p \in P : Cardinality({ q \in P : q < p }) = n - 1
    IN SubSeq(s, Nth(j) + 1, Nth(j + 1) - 1)

\* a group that denotes a byte: an optional '+', then at least one hex digit,
\* all zero except possibly the last two
ValidGroup(g) ==
    LET d == IF g # <<>> /\ g[1] = "+" THEN Tail(g) ELSE g IN
    /\ d # <<>>
    /\ \A i \in 1..Len(d) : d[i] \in HexChars
    /\ \A i \in 1..Len(d) : i <= Len(d) - 2 => d[i] = "0"

\* six groups of two lowercase hex digits with the one separator sep
IsCanonical(s, sep) ==
    /\ Len(s) = 17
    /\ \A i \in 1..Len(s) :
         IF i % 3 = 0 THEN s[i] = sep ELSE s[i] \in LowerHexChars

ExampleText == <<"0","a",":","0","b",":","0","c",":","0","d",":","0","e",":","0","f">>
ExampleMac == <<10, 11, 12, 13, 14, 15>>

\* the value parser ran on the --mac argument
MacParsed == pc # "start" /\ argv.kind = "run" /\ argv.mac.some
MacArg == argv.mac.val

LocalUnicast(mac) == (mac[1] \div 2) % 2 = 1 /\ mac[1] % 2 = 0

\* the log lines that report the MAC address
MacLines == SelectSeq(log, LAMBDA l : l.msg \in {"user_mac", "random_mac"})

----------------------------------------------------------------------------
(* Properties                                                              *)

\* C1: formatting a resolved 6-byte MAC as two lowercase hex digits per byte
\* joined by ':' or by '-' and parsing the text returns the same bytes; and a
\* --mac argument of six two-lowercase-digit groups with one separator kind is
\* accepted and formats back to itself, byte i coming from group i.
C1_RoundTrip ==
    /\ node_mac # <<>> =>
         \A sep \in {":", "-"} :
            parse_mac_address(Join([i \in 1..MacLen |-> HexByte(node_mac[i])], sep))
              = OkMac(node_mac)
    /\ MacParsed =>
         \A sep \in {":", "-"} :
            IsCanonical(MacArg, sep) =>
              /\ macResult.ok
              /\ Join([i \in 1..MacLen |-> HexByte(macResult.val[i])], sep) = MacArg
              /\ \A i \in 1..MacLen : HexByte(macResult.val[i]) = GroupOf(MacArg, i)

C1_Witness ==
    /\ MacParsed
    /\ IsCanonical(MacArg, "-")
    /\ macResult.ok
    /\ macResult.val[2] = 255
    /\ node_mac = macResult.val

\* C2: a --mac argument whose number of groups is not 6 (the empty string, 5
\* groups, 7 groups, a trailing separator) is refused with the invalid-format
\* error, also when a group is not hex, and yields no MAC.
C2_WrongCount ==
    (MacParsed /\ NumGroups(MacArg) # MacLen) =>
        /\ macResult = ErrFormat
        /\ pc = "exited" /\ exitAt = "cli_error" /\ exitCode = 2
        /\ ~cli.mac.some
        /\ node_mac = <<>>

C2_Witness ==
    /\ MacParsed
    /\ MacArg = TrailingArg
    /\ NumGroups(MacArg) = MacLen + 1
    /\ MacArg[Len(MacArg)] = ":"
    /\ \E j \in 1..MacLen : GroupOf(MacArg, j) = <<"g","0">>
    /\ macResult = ErrFormat

\* C3: a --mac argument of exactly 6 groups of which at least one denotes no
\* byte (non-hex character, empty group, value above 0xff) is refused with
\* the invalid-hex-part error carrying the leftmost such group.
C3_OffendingGroup ==
    LET bad == { j \in 1..MacLen : ~ValidGroup(GroupOf(MacArg, j)) } IN
    (MacParsed /\ NumGroups(MacArg) = MacLen /\ bad # {}) =>
        /\ ~macResult.ok
        /\ macResult.err = "InvalidHexPart"
        /\ macResult.part = GroupOf(MacArg, CHOOSE j \in bad : \A k \in bad : j <= k)
        /\ pc = "exited" /\ exitCode = 2

C3_Witness ==
    /\ MacParsed
    /\ NumGroups(MacArg) = MacLen
    /\ GroupOf(MacArg, 2) = <<"1","0","0">>
    /\ GroupOf(MacArg, 5) = <<"g","0">>
    /\ macResult.err = "InvalidHexPart"
    /\ macResult.part = <<"1","0","0">>

\* C4: the generated MAC has bit 0x02 of byte 0 set and bit 0x01 clear, and
\* every other bit of byte 0 and all of bytes 1..5 are the drawn values.
C4_RandomBits ==
    draw # <<>> =>
        /\ Len(node_mac) = MacLen
        /\ (node_mac[1] \div 2) % 2 = 1
        /\ node_mac[1] % 2 = 0
        /\ node_mac[1] \div 4 = draw[1] \div 4
        /\ \A i \in 2..MacLen : node_mac[i] = draw[i]

C4_Witness ==
    /\ draw # <<>>
    /\ draw[1] = 253
    /\ node_mac[1] = 254
    /\ draw[3] = 35

\* C5: when device creation is reached, a supplied --mac is passed to it
\* exactly as parsed and logged once as user-supplied at info level; without
\* --mac the MAC passed is the generated one, locally administered and
\* unicast, logged once as random at warn level; name, MTU and MAC handed to
\* the builder are the resolved ones.
C5_Resolution ==
    buildCalls >= 1 =>
        /\ builder.name = argv.name
        /\ builder.mtu = argv.mtu
        /\ builder.layer = "L2"
        /\ builder.mac = node_mac
        /\ argv.mac.some =>
             /\ macResult.ok
             /\ builder.mac = macResult.val
             /\ MacLines = << Line("info", "user_mac", mac_str(macResult.val)) >>
             /\ (MacArg = ExampleText => builder.mac = ExampleMac)
        /\ ~argv.mac.some =>
             /\ LocalUnicast(builder.mac)
             /\ \A i \in 2..MacLen : builder.mac[i] = draw[i]
             /\ MacLines = << Line("warn", "random_mac", mac_str(builder.mac)) >>

C5_Witness ==
    /\ buildCalls = 1
    /\ argv.mac.some
    /\ argv.name = "eth-test"
    /\ builder.mtu = 1400
    /\ builder.mac[1] = 255

\* C6: the device handle is released exactly once when creation succeeded and
\* never when it failed or was not attempted; no live handle is left at exit.
C6_ReleaseOnce ==
    /\ releases <= 1
    /\ device = "live" => (pc # "exited" /\ releases = 0)
    /\ pc = "exited" =>
         releases = (IF buildCalls = 1 /\ exitAt # "build_async" THEN 1 ELSE 0)

C6_Witness ==
    /\ pc = "exited"
    /\ exitAt = "return"
    /\ sigint
    /\ releases = 1
    /\ device = "released"

\* C7: once the device exists, no outcome of the inspection command ends the
\* process: it goes on to the wait and the device stays alive.
C7_InspectionNonFatal ==
    inspect # "none" =>
        \/ pc \in {"reported", "wait", "shutdown"} /\ device = "live"
        \/ pc = "exited" /\ exitAt \in {"ctrl_c", "return"}

\* C8 as stated: the process exits zero exactly when the interrupt was
\* observed during the wait after a successful creation.
C8_ZeroOnlyOnSignal ==
    pc = "exited" => (exitCode = 0 <=> (sigint /\ buildCalls = 1))

\* C8: the process exits zero exactly when the interrupt was observed during
\* the wait after a successful creation or the command line asked for the
\* help or version text; it exits non-zero when the --mac value is refused
\* (and then creation is never called), when creation fails and when the
\* signal facility fails.
C8_ExitStatus ==
    pc = "exited" =>
        /\ exitCode = 0 <=> ((sigint /\ buildCalls = 1) \/ argv.kind # "run")
        /\ (MacParsed /\ ~macResult.ok) => (exitCode # 0 /\ buildCalls = 0)
        /\ (buildCalls = 1 /\ device = "none") => exitCode # 0
        /\ (log # <<>> /\ log[Len(log)].msg = "running") => exitCode # 0

C8_Witness ==
    /\ pc = "exited"
    /\ argv.kind = "help"
    /\ exitCode = 0
    /\ buildCalls = 0

Rank(p) ==
    IF p \in {"created", "report"} THEN 1
    ELSE IF p = "reported" THEN 2
    ELSE IF p = "wait" THEN 3
    ELSE IF p = "shutdown" THEN 4
    ELSE IF p = "exited" THEN 5
    ELSE 0

\* C9: the lifecycle only moves forward, one state at a time or straight to
\* Terminated; creation is called at most once; Running is left only with the
\* signal received or the signal facility failed; and once the signal is
\* delivered the process reaches Terminated.
C9_Lifecycle ==
    /\ [][ /\ Rank(pc') >= Rank(pc)
           /\ Rank(pc') # Rank(pc) => (Rank(pc') = Rank(pc) + 1 \/ pc' = "exited")
           /\ buildCalls' <= 1
           /\ (pc = "wait" /\ pc' # "wait") =>
                 \/ sigint /\ pc' = "shutdown"
                 \/ pc' = "exited" /\ exitAt' = "ctrl_c" /\ exitCode' # 0
         ]_vars
    /\ (sigint ~> pc = "exited")

C9_Witness ==
    /\ pc = "shutdown"
    /\ sigint
    /\ device = "live"

\* C10: the parser accepts exactly the arguments of 6 groups that each denote
\* a byte, which is more than the two-digit form: one-digit groups
\* (a:b:c:d:e:f gives 0a..0f), longer groups with leading zeros, upper case,
\* '+' and mixed separators; formatting the result gives back the argument
\* only when it was in the two-lowercase-digit colon form.
C10_AcceptedSet ==
    MacParsed =>
        /\ macResult.ok <=>
             (NumGroups(MacArg) = MacLen
              /\ \A j \in 1..MacLen : ValidGroup(GroupOf(MacArg, j)))
        /\ macResult.ok => (mac_str(macResult.val) = MacArg <=> IsCanonical(MacArg, ":"))
        /\ MacArg = OneDigitArg => macResult = OkMac(ExampleMac)

C10_Witness ==
    /\ MacParsed
    /\ macResult.ok
    /\ \E i, j \in 1..Len(MacArg) : MacArg[i] = ":" /\ MacArg[j] = "-"
    /\ GroupOf(MacArg, 3) = <<"0","0","a">>
    /\ GroupOf(MacArg, 4) = <<"F","E">>
    /\ macResult.val[3] = 10
    /\ macResult.val[4] = 254
    /\ mac_str(macResult.val) # MacArg

====
